---- MODULE Spec2Model ----
(***************************************************************************)
(* Model of app.py: the food matcher (analyze_food_text), the nutrition   *)
(* aggregator (build_nutrition_summary), the narrative requester          *)
(* (ask_gemini) and the POST /api/chat handler (chat).                     *)
(*                                                                         *)
(* Text is a sequence of one-character strings.  Nutrient values are kept  *)
(* in hundredths of their unit (0.3 g is 30), so that the decimal literals *)
(* of the table, their products with an integer quantity and their sums    *)
(* are integers.                                                           *)
(***************************************************************************)
EXTENDS Integers, Sequences, FiniteSets, TLC

\* ------------------------------------------------------------------------
\* Characters: str.lower, str.strip, \d, \s, int()
\* ------------------------------------------------------------------------

UpperCase == <<"A","B","C","D","E","F","G","H","I","J","K","L","M",
               "N","O","P","Q","R","S","T","U","V","W","X","Y","Z">>

LowerCase == <<"a","b","c","d","e","f","g","h","i","j","k","l","m",
               "n","o","p","q","r","s","t","u","v","w","x","y","z">>

Digits == <<"0","1","2","3","4","5","6","7","8","9">>

\* the characters \s matches and str.strip removes
Whitespace == {" ", "\t", "\n", "\r"}

Range(f) == {f[i] : i \in DOMAIN f}

IsDigit(c) == c \in Range(Digits)

IsSpace(c) == c \in Whitespace

\* str.lower on one character
LowerChar(c) ==
    IF c \in Range(UpperCase)
    THEN LowerCase[CHOOSE i \in DOMAIN UpperCase : UpperCase[i] = c]
    ELSE c

\* text.lower()
Lower(text) == [i \in DOMAIN text |-> LowerChar(text[i])]

\* the value of one decimal digit
DigitVal(c) == (CHOOSE i \in DOMAIN Digits : Digits[i] = c) - 1

\* int(digits): the base-10 value of a non-empty digit string
RECURSIVE IntOf(_)
IntOf(ds) ==
    IF Len(ds) = 0 THEN 0
    ELSE 10 * IntOf(SubSeq(ds, 1, Len(ds) - 1)) + DigitVal(ds[Len(ds)])

\* a handler that forgets to strip
NoStrip(s) == s

\* str.strip(): drop leading and trailing whitespace
Strip(s) ==
    LET keep == {i \in DOMAIN s : ~IsSpace(s[i])}
    IN  IF keep = {} THEN <<>>
        ELSE LET lo == CHOOSE i \in keep : \A j \in keep : i <= j
                 hi == CHOOSE i \in keep : \A j \in keep : j <= i
             IN  SubSeq(s, lo, hi)

\* ------------------------------------------------------------------------
\* The knowledge base
\* ------------------------------------------------------------------------

\* the keys of FOOD_DATA in insertion order (the order dict.items() yields)
FoodKeys == <<"apple", "banana", "orange", "rice", "chapati", "dal", "paneer",
              "milk", "egg", "almond", "salad", "pizza", "burger", "fries",
              "soda">>

\* the characters of each key
KeyChars == [k \in Range(FoodKeys) |->
    CASE k = "apple"   -> <<"a","p","p","l","e">>
      [] k = "banana"  -> <<"b","a","n","a","n","a">>
      [] k = "orange"  -> <<"o","r","a","n","g","e">>
      [] k = "rice"    -> <<"r","i","c","e">>
      [] k = "chapati" -> <<"c","h","a","p","a","t","i">>
      [] k = "dal"     -> <<"d","a","l">>
      [] k = "paneer"  -> <<"p","a","n","e","e","r">>
      [] k = "milk"    -> <<"m","i","l","k">>
      [] k = "egg"     -> <<"e","g","g">>
      [] k = "almond"  -> <<"a","l","m","o","n","d">>
      [] k = "salad"   -> <<"s","a","l","a","d">>
      [] k = "pizza"   -> <<"p","i","z","z","a">>
      [] k = "burger"  -> <<"b","u","r","g","e","r">>
      [] k = "fries"   -> <<"f","r","i","e","s">>
      [] k = "soda"    -> <<"s","o","d","a">>]

\* one Nutrient Record, values in hundredths
Rec(c, p, cb, f, fb) ==
    [calories |-> c, protein |-> p, carbs |-> cb, fat |-> f, fiber |-> fb]

\* FOOD_DATA as the module defines it at import
FOOD_DATA == [k \in Range(FoodKeys) |->
    CASE k = "apple"   -> Rec( 9500,   50, 2500,   30, 440)
      [] k = "banana"  -> Rec(10500,  130, 2700,   30, 310)
      [] k = "orange"  -> Rec( 6200,  120, 1500,   20, 310)
      [] k = "rice"    -> Rec(20000,  430, 4500,   40,  60)
      [] k = "chapati" -> Rec(12000,  350, 1800,  370, 200)
      [] k = "dal"     -> Rec(18000,  900, 2600,  300, 700)
      [] k = "paneer"  -> Rec(26500, 1800,  600, 2000,   0)
      [] k = "milk"    -> Rec(10300,  800, 1200,  240,   0)
      [] k = "egg"     -> Rec( 7800,  630,   60,  530,   0)
      [] k = "almond"  -> Rec(  700,   30,   20,   60,  30)
      [] k = "salad"   -> Rec( 5000,  200, 1000,   50, 300)
      [] k = "pizza"   -> Rec(28500, 1200, 3600, 1000, 200)
      [] k = "burger"  -> Rec(30000, 1300, 3000, 1400, 150)
      [] k = "fries"   -> Rec(18000,  200, 2200,  900, 200)
      [] k = "soda"    -> Rec(14000,    0, 3900,    0,   0)]

\* ------------------------------------------------------------------------
\* analyze_food_text
\* ------------------------------------------------------------------------

\* the literal name stands in s at position i
LiteralAt(s, i, name) ==
    /\ i + Len(name) - 1 <= Len(s)
    /\ \A k \in 1..Len(name) : s[i + k - 1] = name[k]

\* a membership test that looks at the start of the text only
ContainsAtStart(s, name) == LiteralAt(s, 1, name)

\* `food_name in lower`
Contains(s, name) == \E i \in 1..Len(s) : LiteralAt(s, i, name)

\* the length of the run of digits that starts at position i
RECURSIVE DigitRun(_, _)
DigitRun(s, i) ==
    IF i <= Len(s) /\ IsDigit(s[i]) THEN 1 + DigitRun(s, i + 1) ELSE 0

\* the length of the run of whitespace that starts at position i
RECURSIVE SpaceRun(_, _)
SpaceRun(s, i) ==
    IF i <= Len(s) /\ IsSpace(s[i]) THEN 1 + SpaceRun(s, i + 1) ELSE 0

\* the ways (\d+)\s*name s? matches at position i: <<d, w>> is the number of
\* digits group 1 takes and the number of whitespace characters after it
\* (the optional s matches in either case and is outside group 1)
MatchesAt(s, i, name) ==
    {dw \in (1..DigitRun(s, i)) \X (0..Len(s)) :
        /\ dw[2] <= SpaceRun(s, i + dw[1])
        /\ LiteralAt(s, i + dw[1] + dw[2], name)}

\* a pattern that is not tied to the food name: the first number of the text
RegexSearchAnyNumber(name, s) ==
    LET starts == {i \in 1..Len(s) : IsDigit(s[i])}
    IN  IF starts = {} THEN <<>>
        ELSE LET i0 == CHOOSE i \in starts : \A j \in starts : i <= j
             IN  SubSeq(s, i0, i0 + DigitRun(s, i0) - 1)

\* a search that keeps the last match of the pattern instead of the first
RegexSearchLast(name, s) ==
    LET starts == {i \in 1..Len(s) :
                      /\ MatchesAt(s, i, name) # {}
                      /\ (i = 1 \/ ~IsDigit(s[i - 1]))}
    IN  IF starts = {} THEN <<>>
        ELSE LET i0 == CHOOSE i \in starts : \A j \in starts : j <= i
             IN  SubSeq(s, i0, i0 + DigitRun(s, i0) - 1)

\* re.search(pattern, lower): the leftmost position with a match, the quantifiers
\* greedy; group(1) of the match, or <<>> when there is no match (None)
RegexSearch(name, s) ==
    LET starts == {i \in 1..Len(s) : MatchesAt(s, i, name) # {}}
    IN  IF starts = {} THEN <<>>
        ELSE LET i0 == CHOOSE i \in starts : \A j \in starts : i <= j
                 ms == MatchesAt(s, i0, name)
                 d  == CHOOSE d \in {m[1] : m \in ms} : \A m \in ms : m[1] <= d
             IN  SubSeq(s, i0, i0 + d - 1)

\* the quantity of one food found in the text
Quantity(name, lower) ==
    LET g == RegexSearch(name, lower)
    IN  IF g = <<>> THEN 1 ELSE IntOf(g)

\* the loop of analyze_food_text over the first n entries of the table
RECURSIVE AnalyzeUpTo(_, _, _)
AnalyzeUpTo(table, lower, n) ==
    IF n = 0 THEN <<>>
    ELSE LET food_name == FoodKeys[n]
             rest == AnalyzeUpTo(table, lower, n - 1)
         IN  IF Contains(lower, KeyChars[food_name])
             THEN Append(rest, [name |-> food_name,
                                quantity |-> Quantity(KeyChars[food_name], lower),
                                data |-> table[food_name]])
             ELSE rest

analyze_food_text(table, text) == AnalyzeUpTo(table, Lower(text), Len(FoodKeys))

\* ------------------------------------------------------------------------
\* build_nutrition_summary
\* ------------------------------------------------------------------------

\* the hundredths in one unit of the table's values
Scale == 100

\* x / unit rounded to the nearest integer, ties to the even one: what round()
\* and the .1f format do with a value that is exactly x hundredths
RoundHalfEven(x, unit) ==
    LET fl == x \div unit
        r  == x % unit
    IN  IF 2 * r < unit THEN fl
        ELSE IF 2 * r > unit THEN fl + 1
        ELSE IF fl % 2 = 0 THEN fl ELSE fl + 1

\* round(x): whole units
Round(x) == RoundHalfEven(x, Scale)

\* f"{x:.1f}": the number of tenths the formatted text shows
Fmt1(x) == RoundHalfEven(x, Scale \div 10)

NO_FOODS_MESSAGE ==
    <<"I"," ","c","o","u","l","d"," ","n","o","t"," ","d","e","t","e","c",
      "t"," ","a","n","y"," ","k","n","o","w","n"," ","f","o","o","d","s",
      " ","f","r","o","m"," ","t","h","e"," ","t","e","x","t",".">>

\* the totals dictionary before the loop
ZeroTotals == [calories |-> 0, protein |-> 0, carbs |-> 0, fat |-> 0, fiber |-> 0]

\* values that leave the quantity out
ItemValuesUnscaled(item) ==
    [calories |-> item.data.calories,
     protein  |-> item.data.protein,
     carbs    |-> item.data.carbs,
     fat      |-> item.data.fat,
     fiber    |-> item.data.fiber]

\* the values of one item: each base value times the quantity
ItemValues(item) ==
    [calories |-> item.data.calories * item.quantity,
     protein  |-> item.data.protein * item.quantity,
     carbs    |-> item.data.carbs * item.quantity,
     fat      |-> item.data.fat * item.quantity,
     fiber    |-> item.data.fiber * item.quantity]

\* one pass of the loop body over the totals
Accumulate(totals, v) ==
    [calories |-> totals.calories + v.calories,
     protein  |-> totals.protein + v.protein,
     carbs    |-> totals.carbs + v.carbs,
     fat      |-> totals.fat + v.fat,
     fiber    |-> totals.fiber + v.fiber]

\* the totals after the loop has run over the first n items
RECURSIVE TotalsUpTo(_, _)
TotalsUpTo(food_items, n) ==
    IF n = 0 THEN ZeroTotals
    ELSE Accumulate(TotalsUpTo(food_items, n - 1), ItemValues(food_items[n]))

\* the numbers a line or the totals block shows: kcal whole, the rest in tenths
Shown(v) ==
    [calories |-> Round(v.calories),
     protein  |-> Fmt1(v.protein),
     carbs    |-> Fmt1(v.carbs),
     fat      |-> Fmt1(v.fat),
     fiber    |-> Fmt1(v.fiber)]

\* the line appended for one item
ItemLine(item) ==
    [q |-> item.quantity, name |-> item.name, shown |-> Shown(ItemValues(item))]

\* a summary without the branch for an empty list
SummaryWithoutEmptyBranch(food_items) ==
    [kind |-> "breakdown", text |-> <<>>,
     lines |-> [i \in 1..Len(food_items) |-> ItemLine(food_items[i])],
     totals_block |-> <<Shown(TotalsUpTo(food_items, Len(food_items)))>>]

\* the returned text: the fixed message, or the lines and the totals block
build_nutrition_summary(food_items) ==
    IF Len(food_items) = 0
    THEN [kind |-> "fixed", text |-> NO_FOODS_MESSAGE,
          lines |-> <<>>, totals_block |-> <<>>]
    ELSE [kind |-> "breakdown", text |-> <<>>,
          lines |-> [i \in 1..Len(food_items) |-> ItemLine(food_items[i])],
          totals_block |-> <<Shown(TotalsUpTo(food_items, Len(food_items)))>>]

\* ------------------------------------------------------------------------
\* ask_gemini
\* ------------------------------------------------------------------------

\* the prompt: the fixed template with the two texts embedded in it
Prompt(user_message, nutrition_summary) ==
    [template |-> "Nutrition Buddy",
     user_message |-> user_message,
     nutrition_summary |-> nutrition_summary]

\* ------------------------------------------------------------------------
\* Inputs
\* ------------------------------------------------------------------------

\* the most food mentions in one generated text
MaxMentions == 2

\* the most requests handled at the same time
MaxHandlers == 2

\* what can stand before a food word: nothing, or a number with or without a gap
NumParts ==
    {<<>>, <<"0"," ">>, <<"2">>, <<"3"," ">>, <<"0","5"," ">>}

\* the words of a mention: none, two foods (one capitalised and plural) and a
\* number spelled out
WordParts ==
    {<<>>, <<"a","p","p","l","e">>, <<"D","a","l","s">>, <<"t","w","o">>}

Mentions == {n \o w : n \in NumParts, w \in WordParts} \ {<<>>}

Joiners == {<<" ">>, <<" ","a","n","d"," ">>}

\* the texts of exactly n mentions
RECURSIVE TextsOf(_)
TextsOf(n) ==
    IF n = 1 THEN Mentions
    ELSE {t \o j \o m : t \in TextsOf(n - 1), j \in Joiners, m \in Mentions}

\* the texts the documentation of the program quotes, a food inside a longer
\* word, a text without any food, and a food mentioned twice around another
ExampleTexts ==
    { <<"I"," ","a","t","e"," ","2"," ","c","h","a","p","a","t","i","s"," ",
        "a","n","d"," ","1"," ","d","a","l">>,
      <<"a","p","p","l","e"," ","a","n","d"," ","3"," ","a","p","p","l","e",
        "s">>,
      <<"2"," ","a","p","p","l","e","s"," ","a","n","d"," ","5"," ","a","p",
        "p","l","e","s">>,
      <<"2"," ","c","h","a","p","a","t","i","s">>,
      <<"c","h","a","p","a","t","i">>,
      <<"p","i","n","e","a","p","p","l","e"," ","2">>,
      <<"h","e","l","l","o">>,
      <<"D","a","l","s"," ","a","n","d"," ","2","a","p","p","l","e"," ","D","a",
        "l","s">> }

Texts == UNION {TextsOf(n) : n \in 1..MaxMentions} \cup ExampleTexts

\* the non-blank messages the handler can pass on after stripping
UserMessages == {Strip(t) : t \in Texts} \ {<<>>}

\* "message" values of a request: blank ones, single mentions with whitespace
\* around them, and the quoted examples
MessageTexts ==
    {<<>>, <<" ">>, <<" ","\n","\t">>}
        \cup {<<" ">> \o m \o <<"\n">> : m \in Mentions}
        \cup ExampleTexts

\* a parsed request body: what kind of JSON it is and, for an object, its
\* "message" member
JsonBody(json, type, val) == [json |-> json, type |-> type, val |-> val]

Bodies ==
    {JsonBody("invalid", "none", <<>>),
     JsonBody("null", "none", <<>>),
     JsonBody("array", "none", <<>>),
     JsonBody("object", "absent", <<>>),
     JsonBody("object", "null", <<>>),
     JsonBody("object", "number", <<>>)}
        \cup {JsonBody("object", "str", t) : t \in MessageTexts}

\* the bodies of the requests handled at the same time
ConcurrentBodies ==
    {JsonBody("object", "str", <<>>),
     JsonBody("object", "str", <<"2"," ","D","a","l","s"," ">>),
     JsonBody("object", "str", <<"a","p","p","l","e">>)}

\* texts the external service can return
ServiceTexts ==
    {<<" ","N","i","c","e"," ","m","e","a","l","!","\n">>, <<"o","k">>, <<" ">>}

\* where the external service call can raise: in generate_content, or in
\* reading response.text
ServiceErrors == {"generate_content", "text"}

\* ------------------------------------------------------------------------
\* State
\* ------------------------------------------------------------------------

VARIABLES
    foodData,           \* the module-level FOOD_DATA dictionary
    pc,                 \* per request: where the handler stands
    body,               \* per request: the request body
    user_message,       \* per request: the local user_message
    food_items,         \* per request: the local food_items
    nutrition_summary,  \* per request: the local nutrition_summary
    called,             \* per request: the functions called so far, in order
    sent,               \* per request: the prompts passed to generate_content
    answer,             \* per request: what the external service did
    logged,             \* per request: the errors printed
    response            \* per request: the HTTP response

vars == <<foodData, pc, body, user_message, food_items, nutrition_summary,
          called, sent, answer, logged, response>>

Handlers == DOMAIN pc

NoBody == JsonBody("none", "none", <<>>)

NoSummary == [kind |-> "unset", text |-> <<>>, lines |-> <<>>, totals_block |-> <<>>]

\* what the external service does with a call: it returns a response whose text
\* is read, or the call raises (in generate_content or in reading response.text)
ServiceText(t) == [kind |-> "text", text |-> t]

ServiceError(e) == [kind |-> e, text |-> <<>>]

NoAnswer == [kind |-> "none", text |-> <<>>]

NoResponse == [status |-> 0, json |-> FALSE, reply |-> <<>>]

\* jsonify({"reply": reply}), 200
JsonReply(reply) == [status |-> 200, json |-> TRUE, reply |-> reply]

\* the framework's answer to an exception that leaves the view function
ErrorResponse(status) == [status |-> status, json |-> FALSE, reply |-> <<>>]

EMPTY_MESSAGE_REPLY ==
    <<"P","l","e","a","s","e"," ","t","e","l","l"," ","m","e"," ","w","h",
      "a","t"," ","y","o","u"," ","a","t","e"," ","s","o"," ","I"," ","c",
      "a","n"," ","h","e","l","p",".">>

FALLBACK_REPLY ==
    <<"T","h","e","r","e"," ","w","a","s"," ","a"," ","p","r","o","b","l",
      "e","m"," ","t","a","l","k","i","n","g"," ","t","o"," ","t","h","e",
      " ","A","I"," ","s","e","r","v","e","r","."," ","P","l","e","a","s",
      "e"," ","t","r","y"," ","a","g","a","i","n"," ","l","a","t","e","r",
      ".">>

\* the state of n handlers before any request
InitWith(n) ==
    /\ foodData = FOOD_DATA
    /\ pc = [h \in 1..n |-> "idle"]
    /\ body = [h \in 1..n |-> NoBody]
    /\ user_message = [h \in 1..n |-> <<>>]
    /\ food_items = [h \in 1..n |-> <<>>]
    /\ nutrition_summary = [h \in 1..n |-> NoSummary]
    /\ called = [h \in 1..n |-> <<>>]
    /\ sent = [h \in 1..n |-> <<>>]
    /\ answer = [h \in 1..n |-> NoAnswer]
    /\ logged = [h \in 1..n |-> <<>>]
    /\ response = [h \in 1..n |-> NoResponse]

\* ------------------------------------------------------------------------
\* chat
\* ------------------------------------------------------------------------

\* a POST /api/chat request with body b reaches a handler that is free
Receive(h, b) ==
    /\ pc[h] \in {"idle", "done"}
    /\ pc' = [pc EXCEPT ![h] = "received"]
    /\ body' = [body EXCEPT ![h] = b]
    /\ user_message' = [user_message EXCEPT ![h] = <<>>]
    /\ food_items' = [food_items EXCEPT ![h] = <<>>]
    /\ nutrition_summary' = [nutrition_summary EXCEPT ![h] = NoSummary]
    /\ called' = [called EXCEPT ![h] = <<>>]
    /\ sent' = [sent EXCEPT ![h] = <<>>]
    /\ answer' = [answer EXCEPT ![h] = NoAnswer]
    /\ logged' = [logged EXCEPT ![h] = <<>>]
    /\ response' = [response EXCEPT ![h] = NoResponse]
    /\ UNCHANGED foodData

\* the handler ends with response r
Finish(h, r) ==
    /\ pc' = [pc EXCEPT ![h] = "done"]
    /\ response' = [response EXCEPT ![h] = r]

\* data.get("message", ""): the member, or "" when it is absent
MessageOf(b) == IF b.type = "absent" THEN <<>> ELSE b.val

\* request.get_json(force=True), data.get("message", "").strip() and the test
\* of the stripped message
ChatParse(h) ==
    /\ pc[h] = "received"
    /\ UNCHANGED <<foodData, body, food_items, nutrition_summary, called, sent,
                   answer, logged>>
    /\ IF body[h].json = "invalid"
       THEN \* get_json raises BadRequest
            /\ Finish(h, ErrorResponse(400))
            /\ UNCHANGED user_message
       ELSE IF body[h].json # "object" \/ body[h].type \notin {"absent", "str"}
       THEN \* data has no get, or the member has no strip: AttributeError
            /\ Finish(h, ErrorResponse(500))
            /\ UNCHANGED user_message
       ELSE LET m == Strip(MessageOf(body[h]))
            IN  /\ user_message' = [user_message EXCEPT ![h] = m]
                /\ IF m = <<>>
                   THEN Finish(h, JsonReply(EMPTY_MESSAGE_REPLY))
                   ELSE /\ pc' = [pc EXCEPT ![h] = "analyze"]
                        /\ UNCHANGED response

\* food_items = analyze_food_text(user_message)
ChatAnalyze(h) ==
    /\ pc[h] = "analyze"
    /\ food_items' = [food_items EXCEPT ![h] = analyze_food_text(foodData, user_message[h])]
    /\ called' = [called EXCEPT ![h] = Append(@, "analyze_food_text")]
    /\ pc' = [pc EXCEPT ![h] = "summarize"]
    /\ UNCHANGED <<foodData, body, user_message, nutrition_summary, sent, answer,
                   logged, response>>

\* an aggregator that scales the records of the table in place
ChatSummarizeInPlace(h) ==
    /\ pc[h] = "summarize"
    /\ nutrition_summary' =
           [nutrition_summary EXCEPT ![h] = build_nutrition_summary(food_items[h])]
    /\ foodData' = [k \in DOMAIN foodData |->
           IF \E i \in 1..Len(food_items[h]) : food_items[h][i].name = k
           THEN LET it == food_items[h][CHOOSE i \in 1..Len(food_items[h]) :
                                           food_items[h][i].name = k]
                IN  ItemValues([it EXCEPT !.data = foodData[k]])
           ELSE foodData[k]]
    /\ called' = [called EXCEPT ![h] = Append(@, "build_nutrition_summary")]
    /\ pc' = [pc EXCEPT ![h] = "ask"]
    /\ UNCHANGED <<body, user_message, food_items, sent, answer, logged, response>>

\* nutrition_summary = build_nutrition_summary(food_items)
ChatSummarize(h) ==
    /\ pc[h] = "summarize"
    /\ nutrition_summary' =
           [nutrition_summary EXCEPT ![h] = build_nutrition_summary(food_items[h])]
    /\ called' = [called EXCEPT ![h] = Append(@, "build_nutrition_summary")]
    /\ pc' = [pc EXCEPT ![h] = "ask"]
    /\ UNCHANGED <<foodData, body, user_message, food_items, sent, answer, logged,
                   response>>

\* ask_gemini builds the prompt and calls model.generate_content(prompt)
AskGemini(h) ==
    /\ pc[h] = "ask"
    /\ sent' = [sent EXCEPT ![h] = Append(@, Prompt(user_message[h], nutrition_summary[h]))]
    /\ called' = [called EXCEPT ![h] = Append(@, "generate_content")]
    /\ pc' = [pc EXCEPT ![h] = "calling"]
    /\ UNCHANGED <<foodData, body, user_message, food_items, nutrition_summary,
                   answer, logged, response>>

\* the external service deals with the call
ServiceAnswers(h, o) ==
    /\ pc[h] = "calling"
    /\ answer' = [answer EXCEPT ![h] = o]
    /\ pc' = [pc EXCEPT ![h] = "answered"]
    /\ UNCHANGED <<foodData, body, user_message, food_items, nutrition_summary,
                   called, sent, logged, response>>

\* a handler without the except clause: the error leaves the view function
ChatReplyNoExcept(h) ==
    /\ pc[h] = "answered"
    /\ IF answer[h].kind = "text"
       THEN Finish(h, JsonReply(Strip(answer[h].text)))
       ELSE Finish(h, ErrorResponse(500))
    /\ UNCHANGED <<foodData, body, user_message, food_items, nutrition_summary,
                   called, sent, answer, logged>>

\* ask_gemini returns response.text.strip(), or the call has raised and the
\* except clause prints the error and sets the fixed reply; then the handler
\* returns jsonify({"reply": reply}), 200
ChatReply(h) ==
    /\ pc[h] = "answered"
    /\ IF answer[h].kind = "text"
       THEN /\ Finish(h, JsonReply(Strip(answer[h].text)))
            /\ UNCHANGED logged
       ELSE /\ logged' = [logged EXCEPT ![h] = Append(@, answer[h].kind)]
            /\ Finish(h, JsonReply(FALLBACK_REPLY))
    /\ UNCHANGED <<foodData, body, user_message, food_items, nutrition_summary,
                   called, sent, answer>>

\* the steps of a handler after the request has arrived
Step(h) ==
    \/ ChatParse(h)
    \/ ChatAnalyze(h)
    \/ ChatSummarize(h)
    \/ AskGemini(h)
    \/ \E t \in ServiceTexts : ServiceAnswers(h, ServiceText(t))
    \/ \E e \in ServiceErrors : ServiceAnswers(h, ServiceError(e))
    \/ ChatReply(h)

\* ------------------------------------------------------------------------
\* Specifications
\* ------------------------------------------------------------------------

\* one request at a time, any body
Init == InitWith(1)

Next == \E h \in Handlers : (\E b \in Bodies : Receive(h, b)) \/ Step(h)

Spec == Init /\ [][Next]_vars

\* several requests at the same time, their steps interleaved
InitConc == InitWith(MaxHandlers)

NextConc == \E h \in Handlers : (\E b \in ConcurrentBodies : Receive(h, b)) \/ Step(h)

SpecConc == InitConc /\ [][NextConc]_vars

\* the matcher and the aggregator applied to every generated message: the state
\* of a handler that has just stripped a non-blank message
InitFn ==
    \E t \in UserMessages :
        /\ foodData = FOOD_DATA
        /\ pc = <<"analyze">>
        /\ body = <<JsonBody("object", "str", t)>>
        /\ user_message = <<t>>
        /\ food_items = << <<>> >>
        /\ nutrition_summary = <<NoSummary>>
        /\ called = << <<>> >>
        /\ sent = << <<>> >>
        /\ answer = <<NoAnswer>>
        /\ logged = << <<>> >>
        /\ response = <<NoResponse>>

NextFn == \E h \in Handlers : ChatAnalyze(h) \/ ChatSummarize(h)

SpecFn == InitFn /\ [][NextFn]_vars

\* ------------------------------------------------------------------------
\* Properties
\* ------------------------------------------------------------------------

\* the handler has run the named function in this request
HasCalled(h, f) == \E i \in 1..Len(called[h]) : called[h][i] = f

\* the name is written somewhere in the lowercased text
WrittenIn(name, lower) ==
    \E i \in 1..(Len(lower) - Len(name) + 1) : SubSeq(lower, i, i + Len(name) - 1) = name

\* key k is written somewhere in the text, in either case
OccursIn(k, text) == WrittenIn(KeyChars[k], Lower(text))

\* the position of a key in the table
TableIndex(k) == CHOOSE i \in DOMAIN FoodKeys : FoodKeys[i] = k

\* the whole numbers written right before a mention of the name: <<a, b>> are
\* the first and last position of a run of digits that no digit precedes and
\* that only whitespace separates from the name
NumbersBefore(name, lower) ==
    {ab \in (1..Len(lower)) \X (1..Len(lower)) :
        /\ ab[1] <= ab[2]
        /\ \A x \in ab[1]..ab[2] : IsDigit(lower[x])
        /\ (ab[1] = 1 \/ ~IsDigit(lower[ab[1] - 1]))
        /\ \E p \in (ab[2] + 1)..(Len(lower) - Len(name) + 1) :
              /\ \A x \in (ab[2] + 1)..(p - 1) : IsSpace(lower[x])
              /\ SubSeq(lower, p, p + Len(name) - 1) = name}

\* the number a digit string writes, most significant digit first
RECURSIVE NumberValue(_)
NumberValue(ds) ==
    IF ds = <<>> THEN 0
    ELSE DigitVal(Head(ds)) * 10 ^ (Len(ds) - 1) + NumberValue(Tail(ds))

\* the sum over the items of one base value times the quantity
RECURSIVE ExactSum(_, _)
ExactSum(items, field) ==
    IF items = <<>> THEN 0
    ELSE Head(items).data[field] * Head(items).quantity + ExactSum(Tail(items), field)

\* r is t without its leading and trailing whitespace
IsTrimOf(r, t) ==
    /\ r = <<>> \/ (~IsSpace(r[1]) /\ ~IsSpace(r[Len(r)]))
    /\ \E a \in 0..Len(t) :
          /\ a + Len(r) <= Len(t)
          /\ \A i \in 1..Len(t) :
                IF i > a /\ i <= a + Len(r) THEN t[i] = r[i - a] ELSE IsSpace(t[i])

\* the body is a JSON object whose message is absent, empty or blank
IsBlankBody(b) ==
    /\ b.json = "object"
    /\ \/ b.type = "absent"
       \/ b.type = "str" /\ \A i \in 1..Len(b.val) : IsSpace(b.val[i])

\* C1: every Matched Item returned by analyze_food_text has a quantity >= 1, whatever
\* digits precede the food name.
C1_QuantityAtLeastOne ==
    \A h \in Handlers : \A i \in 1..Len(food_items[h]) : food_items[h][i].quantity >= 1

\* C2: every POST /api/chat request is answered with HTTP 200 and a JSON object
\* {"reply": ...}, whatever the request body is.
C2_AlwaysReply200 ==
    \A h \in Handlers :
        pc[h] = "done" => response[h].status = 200 /\ response[h].json

\* C3: when the external service call has been made, the request completes with HTTP
\* 200 and a JSON reply: the fixed fallback reply, with the error logged, when the call
\* raised, and the service's text trimmed when it succeeded.
C3_ServiceErrorAbsorbed ==
    \A h \in Handlers :
        pc[h] = "done" /\ answer[h].kind # "none" =>
            /\ response[h].status = 200
            /\ response[h].json
            /\ IF answer[h].kind = "text"
               THEN /\ IsTrimOf(response[h].reply, answer[h].text)
                    /\ logged[h] = <<>>
               ELSE /\ response[h].reply = FALLBACK_REPLY
                    /\ logged[h] = <<answer[h].kind>>

C3_Witness ==
    \E h \in Handlers :
        /\ pc[h] = "done"
        /\ user_message[h] # <<>>
        /\ answer[h].kind = "generate_content"
        /\ response[h] = JsonReply(FALLBACK_REPLY)

\* C4: a request whose message is empty, blank or absent is answered with HTTP 200 and
\* the prompting reply, and the matcher, the aggregator and the external service are
\* never called during it.
C4_BlankMessagePromptsWithoutCalls ==
    \A h \in Handlers :
        IsBlankBody(body[h]) =>
            /\ called[h] = <<>>
            /\ sent[h] = <<>>
            /\ pc[h] \in {"received", "done"}
            /\ pc[h] = "done" =>
                   response[h] = [status |-> 200, json |-> TRUE, reply |-> EMPTY_MESSAGE_REPLY]

C4_Witness ==
    \E h \in Handlers :
        /\ pc[h] = "done"
        /\ body[h] = JsonBody("object", "str", <<" ", "\n", "\t">>)
        /\ response[h].reply = EMPTY_MESSAGE_REPLY
        /\ called[h] = <<>>

\* C5: analyze_food_text returns exactly the entries of the table, in table order,
\* whose name occurs in the lowercased text: one item per such entry, none for the
\* others, each with the record of its key.
C5_ItemsAreTheFoundEntriesInTableOrder ==
    \A h \in Handlers :
        HasCalled(h, "analyze_food_text") =>
            LET items == food_items[h]
                lower == Lower(user_message[h])
                found == {k \in Range(FoodKeys) : WrittenIn(KeyChars[k], lower)}
            IN  /\ \A i \in 1..Len(items) :
                      /\ items[i].name \in found
                      /\ items[i].data = FOOD_DATA[items[i].name]
                /\ \A i, j \in 1..Len(items) :
                      i < j => TableIndex(items[i].name) < TableIndex(items[j].name)
                /\ \A k \in found : \E i \in 1..Len(items) : items[i].name = k

\* dal is mentioned twice and before apple, and the items are apple, then dal
C5_Witness ==
    \E h \in Handlers :
        /\ HasCalled(h, "analyze_food_text")
        /\ user_message[h] = <<"D","a","l","s"," ","a","n","d"," ","2","a","p","p","l","e",
                               " ","D","a","l","s">>
        /\ Len(food_items[h]) = 2
        /\ food_items[h][1].name = "apple"
        /\ food_items[h][2].name = "dal"

\* C6: the quantity of a found food is a whole number written right before a mention
\* of its name (digits, optional whitespace, the name) when there is one, and 1
\* otherwise; "2 chapatis" gives 2 and "chapati" gives 1.
C6_QuantityIsNumberBeforeName ==
    \A h \in Handlers :
        HasCalled(h, "analyze_food_text") =>
            LET lower == Lower(user_message[h])
            IN  /\ \A i \in 1..Len(food_items[h]) :
                      LET item == food_items[h][i]
                          nums == NumbersBefore(KeyChars[item.name], lower)
                      IN  IF nums = {}
                          THEN item.quantity = 1
                          ELSE \E ab \in nums :
                                  item.quantity = NumberValue(SubSeq(lower, ab[1], ab[2]))
                /\ user_message[h] = <<"2"," ","c","h","a","p","a","t","i","s">> =>
                      /\ Len(food_items[h]) = 1
                      /\ food_items[h][1].name = "chapati"
                      /\ food_items[h][1].quantity = 2
                /\ user_message[h] = <<"c","h","a","p","a","t","i">> =>
                      /\ Len(food_items[h]) = 1
                      /\ food_items[h][1].name = "chapati"
                      /\ food_items[h][1].quantity = 1

\* a number stands before the word "and" and another right before the food
C6_Witness ==
    \E h \in Handlers :
        /\ HasCalled(h, "analyze_food_text")
        /\ user_message[h] = <<"2"," ","a","n","d"," ","3"," ","a","p","p","l","e">>
        /\ Len(food_items[h]) = 1
        /\ food_items[h][1].quantity = 3

C8_NoFoodsStillAsksService ==
    \A h \in Handlers :
        (user_message[h] # <<>> /\ \A k \in Range(FoodKeys) : ~OccursIn(k, user_message[h])) =>
            /\ HasCalled(h, "build_nutrition_summary") =>
                  /\ nutrition_summary[h].kind = "fixed"
                  /\ nutrition_summary[h].text = NO_FOODS_MESSAGE
                  /\ nutrition_summary[h].text # <<>>
                  /\ nutrition_summary[h].lines = <<>>
                  /\ nutrition_summary[h].totals_block = <<>>
            /\ pc[h] \in {"calling", "answered", "done"} =>
                  /\ called[h] = <<"analyze_food_text", "build_nutrition_summary",
                                   "generate_content">>
                  /\ Len(sent[h]) = 1
                  /\ sent[h][1].user_message = user_message[h]
                  /\ sent[h][1].nutrition_summary.text = NO_FOODS_MESSAGE
                  /\ sent[h][1].nutrition_summary.totals_block = <<>>
            /\ pc[h] = "done" => response[h].status = 200 /\ response[h].json

C8_Witness ==
    \E h \in Handlers :
        /\ pc[h] = "done"
        /\ user_message[h] = <<"h","e","l","l","o">>
        /\ Len(sent[h]) = 1
        /\ sent[h][1].nutrition_summary.text = NO_FOODS_MESSAGE
        /\ answer[h].kind = "text"

\* C9: after any sequence or interleaving of requests FOOD_DATA is as at startup, and
\* the items and the summary of a message are those the message alone determines.
C9_TableUnchangedAndRequestsIndependent ==
    /\ foodData = FOOD_DATA
    /\ \A h \in Handlers :
          /\ HasCalled(h, "analyze_food_text") =>
                food_items[h] = analyze_food_text(FOOD_DATA, user_message[h])
          /\ HasCalled(h, "build_nutrition_summary") =>
                nutrition_summary[h] =
                    build_nutrition_summary(analyze_food_text(FOOD_DATA, user_message[h]))

\* one request is answered while another, with another message, is under way
C9_Witness ==
    \E g, h \in Handlers :
        /\ pc[g] = "done"
        /\ food_items[g] # <<>>
        /\ pc[h] = "ask"
        /\ food_items[h] # <<>>
        /\ user_message[g] # user_message[h]

\* C10: when the digits-then-name pattern occurs several times for a food, or after
\* an un-numbered mention, the quantity is the number of its leftmost occurrence:
\* "apple and 3 apples" gives 3 and "2 apples and 5 apples" gives 2.
C10_QuantityFromLeftmostPattern ==
    \A h \in Handlers :
        HasCalled(h, "analyze_food_text") =>
            LET lower == Lower(user_message[h])
            IN  /\ \A i \in 1..Len(food_items[h]) :
                      LET item == food_items[h][i]
                          nums == NumbersBefore(KeyChars[item.name], lower)
                      IN  nums # {} =>
                            LET first == CHOOSE ab \in nums : \A cd \in nums : ab[1] <= cd[1]
                            IN  item.quantity = NumberValue(SubSeq(lower, first[1], first[2]))
                /\ user_message[h] = <<"a","p","p","l","e"," ","a","n","d"," ","3"," ",
                                       "a","p","p","l","e","s">> =>
                      /\ Len(food_items[h]) = 1
                      /\ food_items[h][1].quantity = 3
                /\ user_message[h] = <<"2"," ","a","p","p","l","e","s"," ","a","n","d"," ",
                                       "5"," ","a","p","p","l","e","s">> =>
                      /\ Len(food_items[h]) = 1
                      /\ food_items[h][1].quantity = 2

C10_Witness ==
    \E h \in Handlers :
        /\ HasCalled(h, "analyze_food_text")
        /\ user_message[h] = <<"2"," ","a","p","p","l","e","s"," ","a","n","d"," ",
                               "5"," ","a","p","p","l","e","s">>
        /\ food_items[h][1].name = "apple"
        /\ food_items[h][1].quantity = 2

====
